---- MODULE Spec2Model ----
(***************************************************************************)
(* Request log repository of the proxy (pkg/db/sqlite/sqlite.go) and the   *)
(* query resolver that reads it (api resolvers).                           *)
(*                                                                         *)
(* The store is a SQLite file with three tables.  Every writer runs on a   *)
(* connection of its own inside a deferred transaction: its first INSERT   *)
(* takes the database write lock, its rows stay private until COMMIT, and  *)
(* a rollback discards them.  Readers run single statements and see the    *)
(* committed tables only.                                                  *)
(***************************************************************************)
EXTENDS Integers, Sequences, FiniteSets, TLC

VARIABLES
    db,      \* committed tables [req, res, hdr]
    txdb,    \* tables as seen by the transaction that holds the write lock
    lock,    \* 0, or the writer whose transaction holds the write lock
    pc,      \* per writer: position inside AddRequestLog / AddResponseLog
    call,    \* per writer: arguments and locals of the call in progress
    ret,     \* per writer: what the last call returned
    rd,      \* the reader: position, arguments and result of a Find call
    sub,     \* history: request id -> the request last inserted under that id
    retReq,  \* history: ids returned by successful AddRequestLog calls
    retRes,  \* history: ids returned by successful AddResponseLog calls
    nops,    \* number of operations started so far
    plan     \* the planner on its own: a field selection and the query built

vars == <<db, txdb, lock, pc, call, ret, rd, sub, retReq, retRes, nops, plan>>

(***************************************************************************)
(* Bounds                                                                  *)
(***************************************************************************)
MaxOps == 3

\* The longest field selection handed to the planner on its own.
MaxFields == 2

Writers == {1, 2}

(***************************************************************************)
(* Inputs                                                                  *)
(***************************************************************************)
NoHeader == <<>>

\* http.Request values handed to AddRequestLog (with body and timestamp).
ReqA == [method |-> "GET", url |-> "http://x.test/a", proto |-> "HTTP/1.1",
         body |-> "", ts |-> 1, header |-> ("X-A" :> <<"1", "2">>)]

ReqB == [method |-> "POST", url |-> "http://x.test/b", proto |-> "HTTP/1.1",
         body |-> "b", ts |-> 2, header |-> ("x-a" :> <<"1">> @@ "X-A" :> <<"2">>)]

ReqC == [method |-> "FOO", url |-> "http://x.test/c", proto |-> "HTTP/2.0",
         body |-> "", ts |-> 3, header |-> NoHeader]

Requests == {ReqA, ReqB, ReqC}

\* http.Response values handed to AddResponseLog; status is the status line.
ResOK == [status |-> <<"2", "0", "0", " ", "O", "K">>, code |-> 200,
          proto |-> "HTTP/1.1", body |-> "hi", ts |-> 4,
          header |-> ("Content-Type" :> <<"text/plain">>)]

ResShort == [status |-> <<"4", "0", "4">>, code |-> 404,
             proto |-> "HTTP/1.1", body |-> "", ts |-> 5, header |-> NoHeader]

Responses == {ResOK, ResShort}

(***************************************************************************)
(* The store: schema and statement semantics                               *)
(***************************************************************************)
NULL == 0

\* The three tables of prepareSchema, empty.
EmptyTables == [req |-> {}, res |-> {}, hdr |-> {}]

Ids(rows) == {r.id : r \in rows}

MaxOf(S) == CHOOSE m \in S : \A x \in S : x <= m

\* id INTEGER PRIMARY KEY (no AUTOINCREMENT): an INSERT without an id gets
\* one more than the largest rowid the table holds now, 1 in an empty table.
NextRowid(rows) == IF rows = {} THEN 1 ELSE MaxOf(Ids(rows)) + 1

\* With _foreign_keys=1 an http_responses row must name a stored request.
ForeignKeysOff(t, reqID) == TRUE

ForeignKeyOK(t, reqID) == reqID \in Ids(t.req)

\* ON DELETE CASCADE of http_responses.req_id, http_headers.req_id and
\* http_headers.res_id: what a DELETE of request `id` leaves.
DeleteCascade(t, id) ==
    LET goneRes == {s.id : s \in {x \in t.res : x.req_id = id}}
    IN  [req |-> {r \in t.req : r.id # id},
         res |-> {s \in t.res : s.req_id # id},
         hdr |-> {h \in t.hdr : h.req_id # id /\ h.res_id \notin goneRes}]

\* A statement prepared on tx leaves the committed tables as they are; one
\* prepared on the pool would commit its row at once.
ExecAutocommit(committed, working) == working

ExecTx(committed, working) == committed

\* defer tx.Rollback(): the committed tables after a failed call.
RollbackKeeps(committed, working) == working

Rollback(committed, working) == committed

\* statusReason: the status line from index 4 on, empty if it is shorter.
StatusReason(status) ==
    IF Len(status) > 4 THEN SubSeq(status, 5, Len(status)) ELSE <<>>

(***************************************************************************)
(* insertHeaders                                                           *)
(***************************************************************************)
\* The (key, value) pairs of one key, in the order of its values.
FirstValueOnly(k, values) ==
    IF values = <<>> THEN <<>> ELSE << <<k, values[1]>> >>

KeyPairs(k, values) == [i \in 1..Len(values) |-> <<k, values[i]>>]

RECURSIVE Flatten(_, _)
Flatten(h, ks) ==
    IF ks = <<>> THEN <<>>
    ELSE KeyPairs(Head(ks), h[Head(ks)]) \o Flatten(h, Tail(ks))

\* `for key, values := range headers`: a Go map is ranged over in any order
\* of its keys, each key's values in slice order.
HeaderOrders(h) ==
    LET n == Cardinality(DOMAIN h)
        orders == {ks \in [1..n -> DOMAIN h] :
                     \A i, j \in 1..n : i # j => ks[i] # ks[j]}
    IN  {Flatten(h, ks) : ks \in orders}

(***************************************************************************)
(* Writers: AddRequestLog and AddResponseLog                               *)
(***************************************************************************)
\* `before` is history: the committed tables as they would be without this call.
Idle ==
    [op |-> "none", arg |-> NoHeader, reqID |-> NULL, id |-> NULL, todo |-> <<>>,
     before |-> EmptyTables]

\* `at` names the failing step of an error; `overlap` is history: another
\* call was in progress when this one committed.
NoRet == [status |-> "none", op |-> "none", id |-> NULL, at |-> "none", overlap |-> FALSE]

\* The call starts: BeginTx and the first PrepareContext succeed.
BeginAddRequest(w, req) ==
    /\ pc[w] = "idle"
    /\ pc' = [pc EXCEPT ![w] = "begun"]
    /\ call' = [call EXCEPT ![w] = [Idle EXCEPT !.op = "req", !.arg = req, !.before = db]]
    /\ ret' = [ret EXCEPT ![w] = NoRet]
    /\ nops' = nops + 1
    /\ UNCHANGED <<db, txdb, lock, rd, sub, retReq, retRes, plan>>

BeginAddResponse(w, reqID, res) ==
    /\ pc[w] = "idle"
    /\ pc' = [pc EXCEPT ![w] = "begun"]
    /\ call' = [call EXCEPT ![w] =
                   [Idle EXCEPT !.op = "res", !.arg = res, !.reqID = reqID,
                                !.before = db]]
    /\ ret' = [ret EXCEPT ![w] = NoRet]
    /\ nops' = nops + 1
    /\ UNCHANGED <<db, txdb, lock, rd, sub, retReq, retRes, plan>>

\* The call returns an error: the deferred Rollback runs.
ReturnError(w, at) ==
    /\ pc' = [pc EXCEPT ![w] = "idle"]
    /\ call' = [call EXCEPT ![w] = Idle]
    /\ ret' = [ret EXCEPT ![w] = [NoRet EXCEPT !.status = "err", !.op = call[w].op,
                                                !.at = at]]
    /\ db' = IF lock = w THEN Rollback(db, txdb) ELSE db
    /\ txdb' = IF lock = w THEN db' ELSE txdb
    /\ lock' = IF lock = w THEN 0 ELSE lock
    /\ UNCHANGED <<rd, sub, retReq, retRes, nops, plan>>

\* reqStmt.ExecContext + LastInsertId + the second PrepareContext.  The
\* INSERT is the transaction's first write: it waits for the write lock.
InsertRequestRow(w) ==
    /\ pc[w] = "begun" /\ call[w].op = "req"
    /\ lock = 0
    /\ LET reqID == NextRowid(db.req)
           a == call[w].arg
           row == [id |-> reqID, proto |-> a.proto, url |-> a.url,
                   method |-> a.method, body |-> a.body, ts |-> a.ts]
       IN  /\ txdb' = [db EXCEPT !.req = @ \cup {row}]
           /\ db' = ExecTx(db, txdb')
           /\ \E todo \in HeaderOrders(a.header) :
                 call' = [call EXCEPT ![w].id = reqID, ![w].todo = todo]
           /\ sub' = (reqID :> a) @@ sub
    /\ lock' = w
    /\ pc' = [pc EXCEPT ![w] = "headers"]
    /\ UNCHANGED <<ret, rd, retReq, retRes, nops, plan>>

\* resStmt.ExecContext: the foreign key is checked by the INSERT itself.
InsertResponseRow(w) ==
    /\ pc[w] = "begun" /\ call[w].op = "res"
    /\ lock = 0
    /\ IF ForeignKeyOK(db, call[w].reqID)
       THEN LET resID == NextRowid(db.res)
                a == call[w].arg
                row == [id |-> resID, req_id |-> call[w].reqID, proto |-> a.proto,
                        status_code |-> a.code,
                        status_reason |-> StatusReason(a.status),
                        body |-> a.body, ts |-> a.ts]
            IN  /\ txdb' = [db EXCEPT !.res = @ \cup {row}]
                /\ db' = ExecTx(db, txdb')
                /\ \E todo \in HeaderOrders(a.header) :
                      call' = [call EXCEPT ![w].id = resID, ![w].todo = todo]
                /\ lock' = w
                /\ pc' = [pc EXCEPT ![w] = "headers"]
                /\ UNCHANGED <<ret, rd, sub, retReq, retRes, nops, plan>>
       ELSE ReturnError(w, "constraint")

\* One stmt.ExecContext(ctx, id, key, value) of insertHeaders.
InsertHeader(w) ==
    /\ pc[w] = "headers" /\ call[w].todo # <<>>
    /\ LET kv == Head(call[w].todo)
           row == [id |-> NextRowid(txdb.hdr),
                   req_id |-> IF call[w].op = "req" THEN call[w].id ELSE NULL,
                   res_id |-> IF call[w].op = "res" THEN call[w].id ELSE NULL,
                   key |-> kv[1], value |-> kv[2]]
       IN  /\ txdb' = [txdb EXCEPT !.hdr = @ \cup {row}]
           /\ db' = ExecTx(db, txdb')
    /\ call' = [call EXCEPT ![w].todo = Tail(@)]
    /\ UNCHANGED <<lock, pc, ret, rd, sub, retReq, retRes, nops, plan>>

\* tx.Commit() and the return of the populated record.
Commit(w) ==
    /\ pc[w] = "headers" /\ call[w].todo = <<>>
    /\ db' = txdb
    /\ txdb' = txdb
    /\ lock' = 0
    /\ pc' = [pc EXCEPT ![w] = "idle"]
    /\ ret' = [ret EXCEPT ![w] =
                  [NoRet EXCEPT !.status = "ok", !.op = call[w].op, !.id = call[w].id,
                                !.overlap = \E v \in Writers : v # w /\ pc[v] # "idle"]]
    /\ call' = [v \in Writers |->
                   IF v = w THEN Idle
                   ELSE IF pc[v] # "idle" THEN [call[v] EXCEPT !.before = txdb]
                   ELSE call[v]]
    /\ retReq' = IF call[w].op = "req" THEN retReq \cup {call[w].id} ELSE retReq
    /\ retRes' = IF call[w].op = "res" THEN retRes \cup {call[w].id} ELSE retRes
    /\ UNCHANGED <<rd, sub, nops, plan>>

\* A step of the call fails (I/O error, the context is cancelled, the busy
\* timeout ends the wait for the lock, the commit fails).
Fail(w) ==
    /\ pc[w] \in {"begun", "headers"}
    /\ ReturnError(w, IF pc[w] = "begun" THEN "row"
                      ELSE IF call[w].todo # <<>> THEN "headers" ELSE "commit")

(***************************************************************************)
(* Field selections and parseHTTPRequestLogsQuery                          *)
(***************************************************************************)
\* A collected field: its name and the fields selected below it.
F(name) == [name |-> name, sel |-> <<>>]

FS(name, sel) == [name |-> name, sel |-> sel]

KeyValue == <<F("key"), F("value")>>

\* { url }
SelUrl == <<F("url")>>

\* { url headers { key value } }
SelReqHeaders == <<F("url"), FS("headers", KeyValue)>>

\* The selection of the log list of the admin UI.
SelList ==
    <<F("id"), F("method"), F("url"), F("timestamp"),
      FS("response", <<F("status"), F("statusCode")>>)>>

\* Every field of the request, its headers, its response and its headers.
SelFull ==
    <<F("id"), F("url"), F("method"), F("proto"), F("body"), F("timestamp"),
      FS("headers", KeyValue),
      FS("response", <<F("requestId"), F("proto"), F("statusCode"),
                       F("statusReason"), F("body"), F("timestamp"),
                       FS("headers", KeyValue)>>)>>

Selections == {SelUrl, SelReqHeaders, SelList, SelFull}

Col(tbl, col) == [tbl |-> tbl, col |-> col]

reqFieldToColumnMap ==
    "proto" :> "proto AS req_proto" @@ "url" :> "url" @@ "method" :> "method" @@
    "body" :> "body AS req_body" @@ "timestamp" :> "timestamp AS req_timestamp"

resFieldToColumnMap ==
    "requestId" :> "req_id AS res_req_id" @@ "proto" :> "proto AS res_proto" @@
    "statusCode" :> "status_code" @@ "statusReason" :> "status_reason" @@
    "body" :> "body AS res_body" @@ "timestamp" :> "timestamp AS res_timestamp"

headerFieldToColumnMap == "key" :> "key" @@ "value" :> "value"

\* The header columns of a headers selection, in selection order.
RECURSIVE HeaderCols(_)
HeaderCols(fields) ==
    IF fields = <<>> THEN <<>>
    ELSE (IF Head(fields).name \in DOMAIN headerFieldToColumnMap
          THEN <<headerFieldToColumnMap[Head(fields).name]>> ELSE <<>>)
         \o HeaderCols(Tail(fields))

\* The loop over the fields of a response selection.
RECURSIVE ResFields(_, _)
ResFields(fields, acc) ==
    IF fields = <<>> THEN acc
    ELSE LET f == Head(fields)
             a1 == IF f.name = "headers"
                   THEN [acc EXCEPT
                           !.requestCols = Append(@, Col("res", "id AS res_id")),
                           !.responseHeaderCols = @ \o HeaderCols(f.sel)]
                   ELSE acc
             a2 == IF f.name \in DOMAIN resFieldToColumnMap
                   THEN [a1 EXCEPT !.requestCols =
                           Append(@, Col("res", resFieldToColumnMap[f.name]))]
                   ELSE a1
         IN  ResFields(Tail(fields), a2)

\* The loop over the fields of the request selection.
RECURSIVE ReqFields(_, _)
ReqFields(fields, acc) ==
    IF fields = <<>> THEN acc
    ELSE LET f == Head(fields)
             a1 == IF f.name \in DOMAIN reqFieldToColumnMap
                   THEN [acc EXCEPT !.requestCols =
                           Append(@, Col("req", reqFieldToColumnMap[f.name]))]
                   ELSE acc
             a2 == IF f.name = "headers"
                   THEN [a1 EXCEPT !.requestHeaderCols = @ \o HeaderCols(f.sel)]
                   ELSE a1
             a3 == IF f.name = "response"
                   THEN ResFields(f.sel, [a2 EXCEPT !.joinResponse = TRUE])
                   ELSE a2
         IN  ReqFields(Tail(fields), a3)

parseHTTPRequestLogsQuery(fields) ==
    ReqFields(fields,
              [requestCols |-> <<Col("req", "id AS req_id"), Col("res", "id AS res_id")>>,
               requestHeaderCols |-> <<>>,
               responseHeaderCols |-> <<>>,
               joinResponse |-> FALSE])

(***************************************************************************)
(* The read path: base query, row conversion, header fetches               *)
(***************************************************************************)
\* SQLite rejects a statement that names a column of an alias its FROM
\* clause does not bind ("no such column: res.id").
BaseQueryValid(q) ==
    \A i \in 1..Len(q.requestCols) :
        q.requestCols[i].tbl = "res" => q.joinResponse

NoResponse ==
    [id |-> NULL, requestID |-> NULL, proto |-> "", statusCode |-> 0,
     statusReason |-> <<>>, body |-> "", ts |-> 0, header |-> NoHeader]

NoResponseRow ==
    [id |-> NULL, req_id |-> NULL, proto |-> "", status_code |-> 0,
     status_reason |-> <<>>, body |-> "", ts |-> 0]

\* FROM http_requests req [LEFT JOIN http_responses res ON req.id = res.req_id]:
\* one row per (request, response of it), or one per request without a response.
BaseRows(t, q) ==
    LET matches(r) == IF q.joinResponse
                      THEN {s \in t.res : s.req_id = r.id} ELSE {}
    IN  UNION {IF matches(r) = {}
               THEN {[req |-> r, res |-> NoResponseRow]}
               ELSE {[req |-> r, res |-> s] : s \in matches(r)} : r \in t.req}

Selected(q, c) == \E i \in 1..Len(q.requestCols) : q.requestCols[i] = c

\* StructScan of the selected columns and dto.toRequestLog(): unselected
\* fields keep their zero value, a NULL res_id gives no response.
toRequestLog(q, row) ==
    LET r == row.req
        s == row.res
        req(c, v, zero) == IF Selected(q, Col("req", c)) THEN v ELSE zero
        res(c, v, zero) == IF Selected(q, Col("res", c)) THEN v ELSE zero
    IN  [id |-> r.id,
         url |-> req("url", r.url, ""),
         method |-> req("method", r.method, ""),
         proto |-> req("proto AS req_proto", r.proto, ""),
         body |-> req("body AS req_body", r.body, ""),
         ts |-> req("timestamp AS req_timestamp", r.ts, 0),
         header |-> NoHeader,
         response |->
            IF s.id = NULL THEN NoResponse
            ELSE [id |-> s.id,
                  requestID |-> res("req_id AS res_req_id", s.req_id, NULL),
                  proto |-> res("proto AS res_proto", s.proto, ""),
                  statusCode |-> res("status_code", s.status_code, 0),
                  statusReason |-> res("status_reason", s.status_reason, <<>>),
                  body |-> res("body AS res_body", s.body, ""),
                  ts |-> res("timestamp AS res_timestamp", s.ts, 0),
                  header |-> NoHeader]]

\* ORDER BY req.id DESC: every order of the rows in which req.id never grows.
RECURSIVE DescOrders(_)
DescOrders(rows) ==
    IF rows = {} THEN {<<>>}
    ELSE LET m == MaxOf({x.req.id : x \in rows})
             top == {x \in rows : x.req.id = m}
         IN  UNION {{<<x>> \o rest : rest \in DescOrders(rows \ {x})} : x \in top}

\* textproto.CanonicalMIMEHeaderKey on the keys the inputs use.
CanonicalMIMEHeaderKey(k) == IF k = "x-a" THEN "X-A" ELSE k

\* http.Header.Add
HeaderAddRaw(h, k, v) ==
    IF k \in DOMAIN h THEN [h EXCEPT ![k] = Append(@, v)] ELSE (k :> <<v>>) @@ h

HeaderAdd(h, k, v) == HeaderAddRaw(h, CanonicalMIMEHeaderKey(k), v)

\* The rows.Next loop of findHeaders over rows in rowid order; cols are the
\* selected columns, scanned into key and value by position.
RECURSIVE ScanHeaders(_, _, _)
ScanHeaders(rows, cols, h) ==
    IF rows = {} THEN h
    ELSE LET x == CHOOSE y \in rows : \A z \in rows : y.id <= z.id
             val(c) == IF c = "key" THEN x.key ELSE x.value
         IN  ScanHeaders(rows \ {x}, cols, HeaderAdd(h, val(cols[1]), val(cols[2])))

\* rows.Scan(&key, &value) takes exactly two columns.
ScanOK(cols) == Len(cols) = 2

findHeaders(rows, cols) == ScanHeaders(rows, cols, NoHeader)

(***************************************************************************)
(* The reader: FindRequestLogByID and FindRequestLogs                      *)
(***************************************************************************)
\* `stored` is history: the ids of the requests stored when the base query ran.
RdIdle ==
    [pc |-> "idle", kind |-> "none", id |-> NULL, sel |-> <<>>, logs |-> <<>>,
     i |-> 0, status |-> "none", stored |-> {}]

RdQuery == parseHTTPRequestLogsQuery(rd.sel)

\* The first log at or after j that has a response, 0 if none.
NextWithResponse(logs, j) ==
    LET S == {k \in j..Len(logs) : logs[k].response.id # NULL}
    IN  IF S = {} THEN 0 ELSE CHOOSE k \in S : \A l \in S : k <= l

\* queryHeaders: where the reader stands once log i of `phase` is next.
After(r, q, phase, i) ==
    IF phase = "reqHeaders" /\ Len(q.requestHeaderCols) > 0 /\ i <= Len(r.logs)
    THEN [r EXCEPT !.pc = "reqHeaders", !.i = i]
    ELSE LET j == NextWithResponse(r.logs, IF phase = "reqHeaders" THEN 1 ELSE i)
         IN  IF Len(q.responseHeaderCols) > 0 /\ j # 0
             THEN [r EXCEPT !.pc = "resHeaders", !.i = j]
             ELSE [r EXCEPT !.pc = "idle", !.i = 0, !.status = "ok"]

RdError(r) == [r EXCEPT !.pc = "idle", !.i = 0, !.status = "error", !.logs = <<>>]

\* FindRequestLogByID up to the scan of the base row.
FindRequestLogByID(id, sel) ==
    /\ rd.pc = "idle"
    /\ nops' = nops + 1
    /\ LET q == parseHTTPRequestLogsQuery(sel)
           r0 == [RdIdle EXCEPT !.kind = "byid", !.id = id, !.sel = sel,
                                !.stored = Ids(db.req)]
           rows == {x \in BaseRows(db, q) : x.req.id = id}
       IN  IF ~BaseQueryValid(q) THEN rd' = RdError(r0)
           ELSE IF rows = {} THEN rd' = [r0 EXCEPT !.status = "notfound"]
           ELSE \E x \in rows :
                  rd' = After([r0 EXCEPT !.logs = <<toRequestLog(q, x)>>],
                              q, "reqHeaders", 1)
    /\ UNCHANGED <<db, txdb, lock, pc, call, ret, sub, retReq, retRes, plan>>

\* FindRequestLogs up to rows.Close().
FindRequestLogs(sel) ==
    /\ rd.pc = "idle"
    /\ nops' = nops + 1
    /\ LET q == parseHTTPRequestLogsQuery(sel)
           r0 == [RdIdle EXCEPT !.kind = "all", !.sel = sel,
                                !.stored = Ids(db.req)]
       IN  IF ~BaseQueryValid(q) THEN rd' = RdError(r0)
           ELSE \E rows \in DescOrders(BaseRows(db, q)) :
                  rd' = After([r0 EXCEPT !.logs =
                                 [k \in 1..Len(rows) |-> toRequestLog(q, rows[k])]],
                              q, "reqHeaders", 1)
    /\ UNCHANGED <<db, txdb, lock, pc, call, ret, sub, retReq, retRes, plan>>

\* One findHeaders(ctx, reqHeadersStmt, reqLogs[i].ID) of queryHeaders.
FetchRequestHeaders ==
    /\ rd.pc = "reqHeaders"
    /\ LET q == RdQuery
           rows == {h \in db.hdr : h.req_id = rd.logs[rd.i].id}
       IN  rd' = IF ~ScanOK(q.requestHeaderCols) /\ rows # {} THEN RdError(rd)
                 ELSE After([rd EXCEPT !.logs[rd.i].header =
                               findHeaders(rows, q.requestHeaderCols)],
                            q, "reqHeaders", rd.i + 1)
    /\ UNCHANGED <<db, txdb, lock, pc, call, ret, sub, retReq, retRes, nops, plan>>

\* One findHeaders(ctx, resHeadersStmt, reqLogs[i].Response.ID) of queryHeaders.
FetchResponseHeaders ==
    /\ rd.pc = "resHeaders"
    /\ LET q == RdQuery
           rows == {h \in db.hdr : h.res_id = rd.logs[rd.i].response.id}
       IN  rd' = IF ~ScanOK(q.responseHeaderCols) /\ rows # {} THEN RdError(rd)
                 ELSE After([rd EXCEPT !.logs[rd.i].response.header =
                               findHeaders(rows, q.responseHeaderCols)],
                            q, "resHeaders", rd.i + 1)
    /\ UNCHANGED <<db, txdb, lock, pc, call, ret, sub, retReq, retRes, nops, plan>>

(***************************************************************************)
(* Deleting a request from the store                                       *)
(***************************************************************************)
\* DELETE FROM http_requests WHERE id = ?, with the schema's cascades; a
\* write like any other, it needs the write lock.
DeleteRequest(id) ==
    /\ lock = 0
    /\ id \in Ids(db.req)
    /\ nops' = nops + 1
    /\ db' = DeleteCascade(db, id)
    /\ txdb' = db'
    /\ call' = [v \in Writers |->
                   IF pc[v] # "idle" THEN [call[v] EXCEPT !.before = db'] ELSE call[v]]
    /\ UNCHANGED <<lock, pc, ret, rd, sub, retReq, retRes, plan>>

(***************************************************************************)
(* Specifications                                                          *)
(***************************************************************************)
\* No selection has been handed to the planner.
NoQuery == [select |-> <<>>, from |-> "", joins |-> <<>>, tail |-> ""]

NoPlan == [sel |-> <<>>, query |-> NoQuery]

Init ==
    /\ plan = NoPlan
    /\ db = EmptyTables
    /\ txdb = EmptyTables
    /\ lock = 0
    /\ pc = [w \in Writers |-> "idle"]
    /\ call = [w \in Writers |-> Idle]
    /\ ret = [w \in Writers |-> NoRet]
    /\ rd = RdIdle
    /\ sub = <<>>
    /\ retReq = {}
    /\ retRes = {}
    /\ nops = 0

\* Ids a caller may pass: those of the stored requests and one that names none.
SomeIds == Ids(db.req) \cup {NextRowid(db.req)}

\* A caller starts an operation.
StartWrite(w) ==
    \/ \E req \in Requests : BeginAddRequest(w, req)
    \/ \E id \in SomeIds, res \in Responses : BeginAddResponse(w, id, res)

StartRead ==
    \/ \E id \in SomeIds, sel \in Selections : FindRequestLogByID(id, sel)
    \/ \E sel \in Selections : FindRequestLogs(sel)

\* An operation in progress takes its next step.
StepWrite ==
    \/ \E w \in Writers : InsertRequestRow(w)
    \/ \E w \in Writers : InsertResponseRow(w)
    \/ \E w \in Writers : InsertHeader(w)
    \/ \E w \in Writers : Commit(w)

StepRead == FetchRequestHeaders \/ FetchResponseHeaders

\* The repository called from concurrent workers, with failing steps.
Next ==
    \/ nops < MaxOps /\ \E w \in Writers : StartWrite(w)
    \/ nops < MaxOps /\ StartRead
    \/ StepWrite
    \/ StepRead
    \/ \E w \in Writers : Fail(w)

Spec == Init /\ [][Next]_vars

\* The repository called from concurrent workers when no step fails.
NextNoFail ==
    \/ nops < MaxOps /\ \E w \in Writers : StartWrite(w)
    \/ nops < MaxOps /\ StartRead
    \/ StepWrite
    \/ StepRead

SpecNoFail == Init /\ [][NextNoFail]_vars

\* The repository with rows being deleted from the store.
NextDelete ==
    \/ Next
    \/ nops < MaxOps /\ \E id \in Ids(db.req) : DeleteRequest(id)

SpecDelete == Init /\ [][NextDelete]_vars

\* The repository called by one worker, one successful call after the other.
NoCall == rd.pc = "idle" /\ \A w \in Writers : pc[w] = "idle"

MaxSerialOps == MaxOps + 1

NextSerial ==
    \/ nops < MaxSerialOps /\ NoCall /\ StartWrite(1)
    \/ nops < MaxSerialOps /\ NoCall /\ StartRead
    \/ StepWrite
    \/ StepRead

SpecSerial == Init /\ [][NextSerial]_vars

(***************************************************************************)
(* The planner on its own: the base query of a field selection             *)
(***************************************************************************)
\* LeftJoin("http_responses res ON req.id = res.req_id") when joinResponse.
JoinsOnResponseHeaders(q) ==
    IF Len(q.responseHeaderCols) > 0
    THEN <<"http_responses res ON req.id = res.req_id">> ELSE <<>>

Joins(q) ==
    IF q.joinResponse THEN <<"http_responses res ON req.id = res.req_id">> ELSE <<>>

\* sq.Select(requestCols...).From("http_requests req") with its tail clause
\* and the optional join.
BaseQuery(q, tail) ==
    [select |-> q.requestCols, from |-> "http_requests req", joins |-> Joins(q),
     tail |-> tail]

\* Collected fields a client may select on a request, known and unknown,
\* with and without nested selections; a name may occur twice under aliases.
PlannerFields ==
    {F("id"), F("url"), F("method"), F("extra"),
     FS("headers", KeyValue),
     FS("response", <<>>),
     FS("response", <<F("statusCode"), F("extra")>>),
     FS("response", <<FS("headers", KeyValue)>>),
     FS("response", <<F("body"), FS("headers", <<F("key")>>), FS("headers", KeyValue)>>)}

PlannerSelections == UNION {[1..n -> PlannerFields] : n \in 0..MaxFields}

InitPlanner ==
    /\ \E sel \in PlannerSelections : plan = [sel |-> sel, query |-> NoQuery]
    /\ db = EmptyTables
    /\ txdb = EmptyTables
    /\ lock = 0
    /\ pc = [w \in Writers |-> "idle"]
    /\ call = [w \in Writers |-> Idle]
    /\ ret = [w \in Writers |-> NoRet]
    /\ rd = RdIdle
    /\ sub = <<>>
    /\ retReq = {}
    /\ retRes = {}
    /\ nops = 0

\* FindRequestLogs up to reqQuery.ToSql().
PlanFindRequestLogs ==
    /\ plan.query = NoQuery
    /\ plan' = [plan EXCEPT !.query =
                   BaseQuery(parseHTTPRequestLogsQuery(plan.sel), "ORDER BY req.id DESC")]
    /\ UNCHANGED <<db, txdb, lock, pc, call, ret, rd, sub, retReq, retRes, nops>>

\* FindRequestLogByID up to reqQuery.ToSql().
PlanFindRequestLogByID ==
    /\ plan.query = NoQuery
    /\ plan' = [plan EXCEPT !.query =
                   BaseQuery(parseHTTPRequestLogsQuery(plan.sel), "WHERE req.id = ?")]
    /\ UNCHANGED <<db, txdb, lock, pc, call, ret, rd, sub, retReq, retRes, nops>>

NextPlanner == PlanFindRequestLogs \/ PlanFindRequestLogByID

SpecPlanner == InitPlanner /\ [][NextPlanner]_vars

(***************************************************************************)
(* The query resolver                                                      *)
(***************************************************************************)
\* HTTPMethod.IsValid: the recognized method tokens.
IsValid(method) ==
    method \in {"GET", "HEAD", "POST", "PUT", "DELETE", "CONNECT", "OPTIONS",
                "TRACE", "PATCH"}

Null == [log |-> "null", err |-> "none"]

\* A conversion that takes every method token.
parseRequestLogUnchecked(log) == [log |-> log, err |-> "none"]

parseRequestLog(log) ==
    IF ~IsValid(log.method)
    THEN [log |-> "null", err |-> "request has invalid method"]
    ELSE [log |-> log, err |-> "none"]

\* queryResolver.HTTPRequestLog on what FindRequestLogByID returned.
HTTPRequestLog(status, logs) ==
    IF status = "notfound" THEN Null
    ELSE IF status = "error"
    THEN [log |-> "null", err |-> "could not get request by ID"]
    ELSE parseRequestLog(logs[1])

\* queryResolver.HTTPRequestLogs on what FindRequestLogs returned: the first
\* log that does not convert ends the query with its error.
HTTPRequestLogs(status, logs) ==
    IF status = "error"
    THEN [log |-> "null", err |-> "could not query repository for requests"]
    ELSE LET bad == {k \in 1..Len(logs) : parseRequestLog(logs[k]).err # "none"}
         IN  IF bad # {}
             THEN parseRequestLog(logs[CHOOSE k \in bad : \A l \in bad : k <= l])
             ELSE [log |-> [k \in 1..Len(logs) |-> parseRequestLog(logs[k]).log],
                   err |-> "none"]

(***************************************************************************)
(* Properties                                                              *)
(***************************************************************************)
\* The number of (key, value) pairs of a header multi-map.
RECURSIVE CountPairs(_, _)
CountPairs(h, keys) ==
    IF keys = {} THEN 0
    ELSE LET k == CHOOSE x \in keys : TRUE
         IN  Len(h[k]) + CountPairs(h, keys \ {k})

NumPairs(h) == CountPairs(h, DOMAIN h)

\* A Find call has returned.
Returned(kind) == rd.kind = kind /\ rd.pc = "idle" /\ rd.status # "none"

\* C1: a FindByID or FindAll that requests headers never returns a request
\* with fewer header pairs than it was submitted with, whatever AddRequest
\* calls are in progress or have failed part-way: each returned request is a
\* submitted one and carries as many header pairs as were submitted.
C1_AddRequestAtomicToReaders ==
    (rd.pc = "idle" /\ rd.status = "ok" /\ Len(RdQuery.requestHeaderCols) > 0) =>
        \A k \in 1..Len(rd.logs) :
            /\ rd.logs[k].id \in DOMAIN sub
            /\ NumPairs(rd.logs[k].header) = NumPairs(sub[rd.logs[k].id].header)

\* A read with headers returned a request with two header pairs while an
\* AddRequest had inserted some but not all of its header rows.
C1_Witness ==
    /\ rd.pc = "idle" /\ rd.status = "ok" /\ Len(RdQuery.requestHeaderCols) > 0
    /\ \E k \in 1..Len(rd.logs) : NumPairs(rd.logs[k].header) = 2
    /\ \E w \in Writers :
          /\ pc[w] = "headers" /\ call[w].op = "req"
          /\ call[w].todo # <<>>
          /\ Len(call[w].todo) < NumPairs(call[w].arg.header)

\* C2: when AddRequest or AddResponse returns an error, at whatever step,
\* the committed tables are what they would be without the call.
C2_ErrorLeavesStoreUnchanged ==
    [][\A w \in Writers :
          (pc[w] # "idle" /\ ret'[w].status = "err") => db' = call[w].before]_vars

\* A call has failed after its row and some of its headers were inserted,
\* and the store holds rows of earlier calls.
C2_Witness ==
    /\ db.req # {}
    /\ \E w \in Writers : ret[w].status = "err" /\ ret[w].at = "headers"

\* C3: each request id is referenced by at most one row of http_responses.
C3_AtMostOneResponse ==
    \A r \in db.req : Cardinality({s \in db.res : s.req_id = r.id}) <= 1

StrictlyDescending(logs) ==
    \A k \in 1..Len(logs) - 1 : logs[k].id > logs[k + 1].id

\* C4: after successful calls of which N are AddRequest calls, FindAll with
\* any selection returns exactly N records with strictly descending ids.
C4_FindAllReturnsEachRequestOnce ==
    Returned("all") =>
        /\ rd.status = "ok"
        /\ Len(rd.logs) = Cardinality(rd.stored)
        /\ StrictlyDescending(rd.logs)

\* C4 for the selections that select the response field.
C4_WithResponseSelected ==
    (Returned("all") /\ RdQuery.joinResponse) =>
        /\ rd.status = "ok"
        /\ Len(rd.logs) = Cardinality(rd.stored)
        /\ StrictlyDescending(rd.logs)

\* C5: a successful AddRequest returns an id greater than every id an
\* earlier AddRequest returned, also when requests are deleted in between;
\* the same for AddResponse.
C5_IdsNeverReused ==
    [][\A w \in Writers :
          (pc[w] # "idle" /\ ret'[w].status = "ok") =>
              \A i \in (IF call[w].op = "req" THEN retReq ELSE retRes) :
                  ret'[w].id > i]_vars

Integrity(t) ==
    /\ \A s \in t.res : s.req_id \in Ids(t.req)
    /\ \A h \in t.hdr :
          \/ h.req_id \in Ids(t.req) /\ h.res_id = NULL
          \/ h.res_id \in Ids(t.res) /\ h.req_id = NULL

\* C6: every response row names a stored request and every header row a
\* stored request or response; AddResponse for a req_id that names no stored
\* request returns an error and inserts nothing; a deleted request leaves no
\* response of it and no header row of either.
C6_ReferentialIntegrity ==
    /\ [](Integrity(db))
    /\ [][\A w \in Writers :
            (/\ pc[w] = "begun" /\ call[w].op = "res"
             /\ call[w].reqID \notin Ids(db.req)
             /\ pc'[w] # "begun")
            => ret'[w].status = "err" /\ db' = db]_vars
    /\ [][\A id \in Ids(db.req) \ Ids(db'.req) :
            LET gone == {s.id : s \in {x \in db.res : x.req_id = id}}
            IN  /\ \A s \in db'.res : s.req_id # id
                /\ \A h \in db'.hdr : h.req_id # id /\ h.res_id \notin gone]_vars

\* A response with headers was committed and its request was then deleted:
\* nothing of either is left.
C6_Witness ==
    /\ \E w \in Writers : ret[w].status = "ok" /\ ret[w].op = "res"
    /\ db = EmptyTables

\* The values of header rows, in rowid order.
RECURSIVE RowValues(_)
RowValues(rows) ==
    IF rows = {} THEN <<>>
    ELSE LET x == CHOOSE y \in rows : \A z \in rows : y.id <= z.id
         IN  <<x.value>> \o RowValues(rows \ {x})

\* Request id is stored as req was submitted: its row, and for each key of
\* its headers exactly the submitted values in their order.
StoredComplete(id, req) ==
    LET rows == {h \in db.hdr : h.req_id = id}
    IN  /\ \E r \in db.req : r.id = id /\ r.url = req.url /\ r.method = req.method
        /\ \A h \in rows : h.key \in DOMAIN req.header
        /\ \A k \in DOMAIN req.header :
              RowValues({h \in rows : h.key = k}) = req.header[k]

\* C7: concurrent AddRequest calls never wait for each other for ever, both
\* return success with different ids, and both requests are then stored
\* with the complete header sets they were submitted with.
C7_ConcurrentAddRequestsSucceed ==
    /\ (\E w \in Writers : pc[w] # "idle") => ENABLED StepWrite
    /\ \A w \in Writers : ret[w].op = "req" => ret[w].status = "ok"
    /\ \A v, w \in Writers :
          (v # w /\ ret[v].op = "req" /\ ret[w].op = "req") =>
              /\ ret[v].id # ret[w].id
              /\ StoredComplete(ret[v].id, sub[ret[v].id])
              /\ StoredComplete(ret[w].id, sub[ret[w].id])

\* Two AddRequest calls whose transactions overlapped have both returned.
C7_Witness ==
    /\ \A w \in Writers : ret[w].op = "req" /\ ret[w].status = "ok"
    /\ \E w \in Writers : ret[w].overlap
    /\ \E w \in Writers : NumPairs(sub[ret[w].id].header) = 2

\* C8: FindByID(i) with a full selection, after AddRequest returned i, gives
\* the method, url, proto, body and timestamp submitted and a header
\* multi-map with the same keys and, per key, the same values in order.
C8_RoundTrip ==
    (Returned("byid") /\ rd.sel = SelFull /\ rd.id \in rd.stored) =>
        /\ rd.status = "ok"
        /\ LET log == rd.logs[1]
               req == sub[rd.id]
           IN  /\ log.method = req.method
               /\ log.url = req.url
               /\ log.proto = req.proto
               /\ log.body = req.body
               /\ log.ts = req.ts
               /\ log.header = req.header

Names(sel) == {sel[k].name : k \in 1..Len(sel)}

\* C9: FindByID of a stored request succeeds for every selection, with the
\* id populated, the selected fields populated, no headers unless selected
\* and no response unless selected.
C9_ProjectionPopulated ==
    (Returned("byid") /\ rd.id \in rd.stored) =>
        /\ rd.status = "ok"
        /\ LET log == rd.logs[1]
               req == sub[rd.id]
           IN  /\ log.id = rd.id
               /\ "url" \in Names(rd.sel) => log.url = req.url
               /\ "method" \in Names(rd.sel) => log.method = req.method
               /\ "headers" \notin Names(rd.sel) => log.header = NoHeader
               /\ "response" \notin Names(rd.sel) => log.response = NoResponse

\* C10: FindByID of an id that names no stored request returns NotFound for
\* every selection, and the resolver HTTPRequestLog turns it into a null
\* result without an error.
C10_NotFound ==
    (Returned("byid") /\ rd.id \notin rd.stored) =>
        /\ rd.status = "notfound"
        /\ HTTPRequestLog(rd.status, rd.logs) = Null

\* The planner has built the base query of plan.sel.
Planned == plan.query # NoQuery

\* C11: the base query of FindAll and FindByID holds the LEFT JOIN on the
\* responses table exactly once when the selection has a response field,
\* whatever is selected below it, and no join when it has none.
C11_JoinIffResponseSelected ==
    Planned =>
        Len(plan.query.joins) = (IF "response" \in Names(plan.sel) THEN 1 ELSE 0)

\* Queries were built for a selection with two response fields, one of them
\* without nested fields.
C11_Witness ==
    /\ Planned
    /\ Len(plan.sel) = 2
    /\ \A k \in 1..2 : plan.sel[k].name = "response"
    /\ \E k \in 1..2 : plan.sel[k].sel = <<>>
    /\ Len(plan.query.joins) = 1

\* How many times column c stands in a column list.
Count(cols, c) == Cardinality({i \in 1..Len(cols) : cols[i] = c})

ReqId == Col("req", "id AS req_id")

ResId == Col("res", "id AS res_id")

\* C12: the column list of the base query holds req.id exactly once; it
\* holds res.id, or any column of the res alias, exactly when the responses
\* join is emitted, and then res.id exactly once.
C12_ResColumnsOnlyWithJoin ==
    Planned =>
        LET cols == plan.query.select
            joined == Len(plan.query.joins) > 0
        IN  /\ Count(cols, ReqId) = 1
            /\ (Count(cols, ResId) > 0) <=> joined
            /\ joined => Count(cols, ResId) = 1
            /\ \A i \in 1..Len(cols) : cols[i].tbl = "res" => joined

InvalidMethod == [log |-> "null", err |-> "request has invalid method"]

\* C13: AddRequest stores a request whatever its method token and returns no
\* error; HTTPRequestLog and HTTPRequestLogs return the invalid-method error
\* exactly when a record they convert was submitted with an
\* unrecognized method (the method being selected), and never when the
\* repository call itself failed.
C13_InvalidMethodOnlyAtQuery ==
    /\ \A w \in Writers :
          ret[w].op = "req" =>
              /\ ret[w].status = "ok"
              /\ \E r \in db.req :
                    r.id = ret[w].id /\ r.method = sub[ret[w].id].method
    /\ (Returned("byid") \/ Returned("all")) =>
          LET out == IF rd.kind = "byid" THEN HTTPRequestLog(rd.status, rd.logs)
                     ELSE HTTPRequestLogs(rd.status, rd.logs)
          IN  IF rd.status = "ok" /\ "method" \in Names(rd.sel)
              THEN IF \E k \in 1..Len(rd.logs) : ~IsValid(sub[rd.logs[k].id].method)
                   THEN out.err = InvalidMethod.err
                   ELSE /\ out.err = "none"
                        /\ LET logs == IF rd.kind = "byid" THEN <<out.log>>
                                       ELSE out.log
                           IN  \A k \in 1..Len(rd.logs) :
                                  logs[k].method = sub[rd.logs[k].id].method
              ELSE rd.status # "ok" => out.err # InvalidMethod.err

\* AddRequest has just returned the id of a request with method FOO, and
\* HTTPRequestLogs over it and an earlier request with a recognized method
\* ends with the invalid-method error.
C13_Witness ==
    /\ ret[1].op = "req" /\ ret[1].status = "ok"
    /\ ~IsValid(sub[ret[1].id].method)
    /\ Returned("all") /\ rd.status = "ok"
    /\ "method" \in Names(rd.sel)
    /\ \E k \in 1..Len(rd.logs) : IsValid(sub[rd.logs[k].id].method)
    /\ \E k \in 1..Len(rd.logs) : rd.logs[k].id = ret[1].id
    /\ HTTPRequestLogs(rd.status, rd.logs) = InvalidMethod

====
